---- MODULE Spec2Model ----
(***************************************************************************)
(* Model of example-freertos-blinky-mc.c: the two-phase multi-hart boot    *)
(* rendezvous (secondary_main / other_main / prvSetupHardware), main()'s   *)
(* creation of the queue and the two tasks, and the producer / consumer    *)
(* tasks running under the fixed-priority preemptive scheduler of hart 0.  *)
(***************************************************************************)
EXTENDS Integers, Sequences, FiniteSets, TLC

(* ---------------------------------------------------------------- bounds *)

\* metal_cpu_get_num_harts(): the number of harts of the target (> 1, line 53).
NumHarts == 3

\* The tick counter wraps at TickWrap (stands for 2^bits of TickType_t).
TickWrap == 4

\* pdMS_TO_TICKS( 1000 ) scaled down: the producer's period in ticks.
PeriodTicks == 2

(* ------------------------------------------------------------- constants *)

tskIDLE_PRIORITY == 0

\* The consumer given a priority below the producer's.
mainQUEUE_RECEIVE_TASK_PRIORITY_Swapped == tskIDLE_PRIORITY + 0

\* The consumer given the producer's priority.
mainQUEUE_RECEIVE_TASK_PRIORITY_Equal == tskIDLE_PRIORITY + 1

mainQUEUE_RECEIVE_TASK_PRIORITY == tskIDLE_PRIORITY + 2

\* The producer given the consumer's priority.
mainQUEUE_SEND_TASK_PRIORITY_Raised == tskIDLE_PRIORITY + 2

mainQUEUE_SEND_TASK_PRIORITY == tskIDLE_PRIORITY + 1

mainQUEUE_SEND_FREQUENCY_MS == PeriodTicks

mainQUEUE_LENGTH == 1

\* const unsigned long ulValueToSend = 100UL, ulExpectedValue = 100UL, as
\* (high word, low word) pairs of 32-bit words; the high word exists only
\* where unsigned long is 64 bits wide.
SentinelWord == 100

ULong(hi, lo) == [hi |-> hi, lo |-> lo]

ulValueToSend == ULong(0, SentinelWord)

ulExpectedValue == ULong(0, SentinelWord)

\* What a 32-bit word of a fresh, uninitialised stack slot may hold.
StackWords == {0, SentinelWord}

\* Width of unsigned long on the build: RV32 or RV64.
XLens == {32, 64}

Harts == 0 .. (NumHarts - 1)

Secondaries == Harts \ {0}

NoOwner == NumHarts

pcFailMessage_lock == "Failed to initialize my_lock"

pcMessage_other == "Other Hart Init"

pcMessage_main == "FreeRTOS Demo Multicore start after other core init OK"

pcErrorMsg == "No External controller"

pcWarningMsg == "At least one of LEDs is null."

pcPassMessage == "Blink"

pcErrorMsg_overflow == "ERROR Stack overflow on func: "

pcFailMessage_rx == "Unexpected value received"

TaskNames == {"Rx", "TX", "IDLE"}

VARIABLES
    pc,                 \* pc[h]: where hart h is in its boot code
    my_lock,            \* [init, owner]: METAL_LOCK_DECLARE(my_lock)
    _start_other,       \* volatile int _start_other
    checkin_count,      \* volatile int checkin_count
    reg,                \* reg[h]: the register hart h loaded checkin_count into
    console,            \* the lines written to STDOUT_FILENO before the producer's
                        \* first send, in order
    led0_red,           \* "NULL" | "ok": struct metal_led *led0_red
    led0_green,         \* "NULL" | "ok": struct metal_led *led0_green
    led_red,            \* "unset" | "dark" | "lit": the red (failure) indicator
    led_green,          \* "unset" | "dark" | "lit": the green indicator
    xlen,               \* width of unsigned long on this build
    useMallocFailedHook,\* configUSE_MALLOC_FAILED_HOOK ("0" | "1"), "unread" until
                        \* pvPortMalloc() first consults it
    heapExhausted,      \* an allocation has failed (nothing is freed during boot)
    xQueue,             \* "NULL" | "created": the queue handle
    items,              \* the 4-byte items held by the queue, oldest first
    taskState,          \* taskState[t]: "absent" | "ready" | "blockedRecv" | "delayed"
    pxCurrentTCB,       \* the Running task of hart 0, "NULL" before the scheduler starts
    xSchedulerRunning,  \* vTaskStartScheduler() has started the first task
    interruptsEnabled,  \* hart 0 takes interrupts: not from reset until the scheduler
                        \* starts the first task, and not after taskDISABLE_INTERRUPTS()
    xTickCount,         \* the kernel's tick counter
    xTimeToWake,        \* the tick the delayed producer is woken at
    txpc,               \* where prvQueueSendTask is
    xNextWakeTime,      \* prvQueueSendTask's local
    xReturned,          \* prvQueueSendTask's local: "pdPASS" | "errQUEUE_FULL", "unset"
                        \* until the first xQueueSend() has returned
    rxpc,               \* where prvQueueReceiveTask is
    ulReceivedValue,    \* prvQueueReceiveTask's local
    signals,            \* the lines written to STDOUT_FILENO since the producer's
                        \* last send
    injected            \* a wrong value has been put into the queue from outside

bootVars == <<pc, my_lock, _start_other, checkin_count, reg, console>>

hwVars == <<led0_red, led0_green, led_red, led_green>>

buildVars == <<xlen, useMallocFailedHook>>

kernelVars == <<heapExhausted, xQueue, items, taskState, pxCurrentTCB,
                xSchedulerRunning, interruptsEnabled, xTickCount, xTimeToWake>>

taskVars == <<txpc, xNextWakeTime, xReturned, rxpc, ulReceivedValue, signals>>

vars == <<bootVars, hwVars, buildVars, kernelVars, taskVars, injected>>

(* ------------------------------------------------------------------ Init *)

Init ==
    /\ pc = [h \in Harts |-> IF h = 0 THEN "lock_init" ELSE "poll"]
    /\ my_lock = [init |-> FALSE, owner |-> NoOwner]
    /\ _start_other = 0
    /\ checkin_count = 0
    /\ reg = [h \in Harts |-> 0]
    /\ console = <<>>
    /\ led0_red = "NULL"
    /\ led0_green = "NULL"
    /\ led_red = "unset"
    /\ led_green = "unset"
    /\ xlen \in XLens
    /\ useMallocFailedHook = "unread"
    /\ heapExhausted = FALSE
    /\ xQueue = "NULL"
    /\ items = <<>>
    /\ taskState = [t \in TaskNames |-> "absent"]
    /\ pxCurrentTCB = "NULL"
    /\ xSchedulerRunning = FALSE
    /\ interruptsEnabled = FALSE
    /\ xTickCount = 0
    /\ xTimeToWake = 0
    /\ txpc = "init"
    /\ xNextWakeTime = 0
    /\ xReturned = "unset"
    /\ rxpc = "receive"
    /\ ulReceivedValue = ULong(0, 0)
    /\ signals = <<>>
    /\ injected = FALSE

(* ------------------------------------------------- the lock (metal/lock.h) *)

\* metal_lock_init( &my_lock ) returning 0.
metal_lock_init(l) == [l EXCEPT !.init = TRUE, !.owner = NoOwner]

\* metal_lock_take( &my_lock ) can return to hart h only while nobody holds it.
metal_lock_can_take(l, h) == l.owner = NoOwner

metal_lock_take(l, h) == [l EXCEPT !.owner = h]

metal_lock_give(l, h) == [l EXCEPT !.owner = NoOwner]

(* --------------------------------------------- secondary_main, on hart 0 *)

\* The failure branch without its for( ;; ): the message, then on as if rc were 0.
secondary_main_lock_init_ignoring_rc ==
    /\ pc[0] = "lock_init"
    /\ pc' = [pc EXCEPT ![0] = "start_other"]
    /\ console' = Append(console, pcFailMessage_lock)
    /\ UNCHANGED <<my_lock, _start_other, checkin_count, reg>>
    /\ UNCHANGED <<hwVars, buildVars, injected, kernelVars, taskVars>>

\* rc = metal_lock_init( &my_lock ); on failure write the message and spin.
secondary_main_lock_init_failed ==
    /\ pc[0] = "lock_init"
    /\ pc' = [pc EXCEPT ![0] = "lock_init_halt"]
    /\ console' = Append(console, pcFailMessage_lock)
    /\ UNCHANGED <<my_lock, _start_other, checkin_count, reg>>
    /\ UNCHANGED <<hwVars, buildVars, injected, kernelVars, taskVars>>

secondary_main_lock_init_ok ==
    /\ pc[0] = "lock_init"
    /\ my_lock' = metal_lock_init(my_lock)
    /\ pc' = [pc EXCEPT ![0] = "start_other"]
    /\ UNCHANGED <<_start_other, checkin_count, reg, console>>
    /\ UNCHANGED <<hwVars, buildVars, injected, kernelVars, taskVars>>

\* fence rw,w; _start_other = 1; return main(), which calls prvSetupHardware().
secondary_main_start_other ==
    /\ pc[0] = "start_other"
    /\ _start_other' = 1
    /\ pc' = [pc EXCEPT ![0] = "hw_take"]
    /\ UNCHANGED <<my_lock, checkin_count, reg, console>>
    /\ UNCHANGED <<hwVars, buildVars, injected, kernelVars, taskVars>>

(* ------------------------------------------ other_main, on harts 1..N-1 *)

\* other_main without its wait on _start_other.
other_main_poll_not_waiting(h) ==
    /\ pc[h] = "poll"
    /\ pc' = [pc EXCEPT ![h] = "take"]
    /\ UNCHANGED <<my_lock, _start_other, checkin_count, reg, console>>
    /\ UNCHANGED <<hwVars, buildVars, injected, kernelVars, taskVars>>

\* while( !_start_other ) ;
other_main_poll(h) ==
    /\ pc[h] = "poll"
    /\ _start_other # 0
    /\ pc' = [pc EXCEPT ![h] = "take"]
    /\ UNCHANGED <<my_lock, _start_other, checkin_count, reg, console>>
    /\ UNCHANGED <<hwVars, buildVars, injected, kernelVars, taskVars>>

\* other_main without its metal_lock_take().
other_main_take_unlocked(h) ==
    /\ pc[h] = "take"
    /\ pc' = [pc EXCEPT ![h] = "write"]
    /\ UNCHANGED <<my_lock, _start_other, checkin_count, reg, console>>
    /\ UNCHANGED <<hwVars, buildVars, injected, kernelVars, taskVars>>

\* other_main taking my_lock without waiting for its holder to give it.
other_main_take_without_waiting(h) ==
    /\ pc[h] = "take"
    /\ my_lock' = metal_lock_take(my_lock, h)
    /\ pc' = [pc EXCEPT ![h] = "write"]
    /\ UNCHANGED <<_start_other, checkin_count, reg, console>>
    /\ UNCHANGED <<hwVars, buildVars, injected, kernelVars, taskVars>>

\* metal_lock_take( &my_lock );
other_main_take(h) ==
    /\ pc[h] = "take"
    /\ metal_lock_can_take(my_lock, h)
    /\ my_lock' = metal_lock_take(my_lock, h)
    /\ pc' = [pc EXCEPT ![h] = "write"]
    /\ UNCHANGED <<_start_other, checkin_count, reg, console>>
    /\ UNCHANGED <<hwVars, buildVars, injected, kernelVars, taskVars>>

\* write( STDOUT_FILENO, pcMessage, strlen( pcMessage ) ): the call is entered
\* and the message starts to go out.
other_main_write_begin(h) ==
    /\ pc[h] = "write"
    /\ pc' = [pc EXCEPT ![h] = "writing"]
    /\ UNCHANGED <<my_lock, _start_other, checkin_count, reg, console>>
    /\ UNCHANGED <<hwVars, buildVars, injected, kernelVars, taskVars>>

\* write( STDOUT_FILENO, pcMessage, strlen( pcMessage ) ): the whole message
\* is out and the call returns.
other_main_write(h) ==
    /\ pc[h] = "writing"
    /\ console' = Append(console, pcMessage_other)
    /\ pc' = [pc EXCEPT ![h] = "inc_load"]
    /\ UNCHANGED <<my_lock, _start_other, checkin_count, reg>>
    /\ UNCHANGED <<hwVars, buildVars, injected, kernelVars, taskVars>>

\* checkin_count += 1, a load and a store of the volatile: the load.
other_main_inc_load(h) ==
    /\ pc[h] = "inc_load"
    /\ reg' = [reg EXCEPT ![h] = checkin_count]
    /\ pc' = [pc EXCEPT ![h] = "inc_store"]
    /\ UNCHANGED <<my_lock, _start_other, checkin_count, console>>
    /\ UNCHANGED <<hwVars, buildVars, injected, kernelVars, taskVars>>

\* checkin_count += 1: the store.
other_main_inc_store(h) ==
    /\ pc[h] = "inc_store"
    /\ checkin_count' = reg[h] + 1
    /\ pc' = [pc EXCEPT ![h] = "give"]
    /\ UNCHANGED <<my_lock, _start_other, reg, console>>
    /\ UNCHANGED <<hwVars, buildVars, injected, kernelVars, taskVars>>

\* other_main without its metal_lock_give().
other_main_give_forgotten(h) ==
    /\ pc[h] = "give"
    /\ pc' = [pc EXCEPT ![h] = "wfi"]
    /\ UNCHANGED <<my_lock, _start_other, checkin_count, reg, console>>
    /\ UNCHANGED <<hwVars, buildVars, injected, kernelVars, taskVars>>

\* metal_lock_give( &my_lock ); then the wfi loop.
other_main_give(h) ==
    /\ pc[h] = "give"
    /\ my_lock' = metal_lock_give(my_lock, h)
    /\ pc' = [pc EXCEPT ![h] = "wfi"]
    /\ UNCHANGED <<_start_other, checkin_count, reg, console>>
    /\ UNCHANGED <<hwVars, buildVars, injected, kernelVars, taskVars>>

\* other_main looping back to its check-in instead of staying in the wfi loop.
other_main_wfi_checks_in_again(h) ==
    /\ pc[h] = "wfi"
    /\ pc' = [pc EXCEPT ![h] = "take"]
    /\ UNCHANGED <<my_lock, _start_other, checkin_count, reg, console>>
    /\ UNCHANGED <<hwVars, buildVars, injected, kernelVars, taskVars>>

\* while( 1 ) { wfi }
other_main_wfi(h) ==
    /\ pc[h] = "wfi"
    /\ UNCHANGED vars

(* --------------------------------- prvSetupHardware, on hart 0: check-in *)

\* metal_lock_take( &my_lock );
prvSetupHardware_take ==
    /\ pc[0] = "hw_take"
    /\ metal_lock_can_take(my_lock, 0)
    /\ my_lock' = metal_lock_take(my_lock, 0)
    /\ pc' = [pc EXCEPT ![0] = "hw_inc_load"]
    /\ UNCHANGED <<_start_other, checkin_count, reg, console>>
    /\ UNCHANGED <<hwVars, buildVars, injected, kernelVars, taskVars>>

\* checkin_count += 1: the load.
prvSetupHardware_inc_load ==
    /\ pc[0] = "hw_inc_load"
    /\ reg' = [reg EXCEPT ![0] = checkin_count]
    /\ pc' = [pc EXCEPT ![0] = "hw_inc_store"]
    /\ UNCHANGED <<my_lock, _start_other, checkin_count, console>>
    /\ UNCHANGED <<hwVars, buildVars, injected, kernelVars, taskVars>>

\* checkin_count += 1: the store.
prvSetupHardware_inc_store ==
    /\ pc[0] = "hw_inc_store"
    /\ checkin_count' = reg[0] + 1
    /\ pc' = [pc EXCEPT ![0] = "hw_give"]
    /\ UNCHANGED <<my_lock, _start_other, reg, console>>
    /\ UNCHANGED <<hwVars, buildVars, injected, kernelVars, taskVars>>

\* metal_lock_give( &my_lock );
prvSetupHardware_give ==
    /\ pc[0] = "hw_give"
    /\ my_lock' = metal_lock_give(my_lock, 0)
    /\ pc' = [pc EXCEPT ![0] = "hw_wait"]
    /\ UNCHANGED <<_start_other, checkin_count, reg, console>>
    /\ UNCHANGED <<hwVars, buildVars, injected, kernelVars, taskVars>>

\* The busy-wait ending at the first check-in: while( checkin_count == 0 ) ;
prvSetupHardware_wait_any_checkin ==
    /\ pc[0] = "hw_wait"
    /\ checkin_count >= 1
    /\ pc' = [pc EXCEPT ![0] = "hw_setup"]
    /\ UNCHANGED <<my_lock, _start_other, checkin_count, reg, console>>
    /\ UNCHANGED <<hwVars, buildVars, injected, kernelVars, taskVars>>

\* The busy-wait ending one hart early: while( checkin_count < num_harts - 1 ) ;
prvSetupHardware_wait_off_by_one ==
    /\ pc[0] = "hw_wait"
    /\ ~ (checkin_count < NumHarts - 1)
    /\ pc' = [pc EXCEPT ![0] = "hw_setup"]
    /\ UNCHANGED <<my_lock, _start_other, checkin_count, reg, console>>
    /\ UNCHANGED <<hwVars, buildVars, injected, kernelVars, taskVars>>

\* while( checkin_count != num_harts ) ;
prvSetupHardware_wait ==
    /\ pc[0] = "hw_wait"
    /\ ~ (checkin_count # NumHarts)
    /\ pc' = [pc EXCEPT ![0] = "hw_setup"]
    /\ UNCHANGED <<my_lock, _start_other, checkin_count, reg, console>>
    /\ UNCHANGED <<hwVars, buildVars, injected, kernelVars, taskVars>>


(* ------------------------- prvSetupHardware, on hart 0: after the barrier *)

\* cpu == NULL, cpu_intr == NULL or metal_interrupt_enable() == -1: return.
prvSetupHardware_early_return ==
    /\ pc[0] = "hw_setup"
    /\ pc' = [pc EXCEPT ![0] = "main_write"]
    /\ UNCHANGED <<my_lock, _start_other, checkin_count, reg, console>>
    /\ UNCHANGED <<hwVars, buildVars, injected, kernelVars, taskVars>>

\* plic == NULL (or clic == NULL): write the error message and spin.
prvSetupHardware_no_controller ==
    /\ pc[0] = "hw_setup"
    /\ console' = Append(console, pcErrorMsg)
    /\ pc' = [pc EXCEPT ![0] = "no_controller_halt"]
    /\ UNCHANGED <<my_lock, _start_other, checkin_count, reg>>
    /\ UNCHANGED <<hwVars, buildVars, injected, kernelVars, taskVars>>

\* The three metal_led_get_rgb() calls and the if / else that follows them.
prvSetupHardware_leds ==
    /\ pc[0] = "hw_setup"
    /\ led0_red' \in {"NULL", "ok"}
    /\ led0_green' \in {"NULL", "ok"}
    /\ \E led0_blue \in {"NULL", "ok"} :
       IF led0_red' = "NULL" \/ led0_green' = "NULL" \/ led0_blue = "NULL"
       THEN /\ console' = Append(console, pcWarningMsg)
            /\ UNCHANGED <<led_red, led_green>>
       ELSE /\ led_red' = "dark"
            /\ led_green' = "dark"
            /\ UNCHANGED console
    /\ pc' = [pc EXCEPT ![0] = "main_write"]
    /\ UNCHANGED <<my_lock, _start_other, checkin_count, reg>>
    /\ UNCHANGED <<buildVars, injected, kernelVars, taskVars>>

(* ---------------------------------------------------- the kernel's rules *)

\* The two priorities handed to the wrong xTaskCreate() calls.
uxPriority_exchanged(t) ==
    CASE t = "Rx" -> mainQUEUE_SEND_TASK_PRIORITY
      [] t = "TX" -> mainQUEUE_RECEIVE_TASK_PRIORITY
      [] OTHER -> tskIDLE_PRIORITY

uxPriority(t) ==
    CASE t = "Rx" -> mainQUEUE_RECEIVE_TASK_PRIORITY
      [] t = "TX" -> mainQUEUE_SEND_TASK_PRIORITY
      [] OTHER -> tskIDLE_PRIORITY

ReadyTasks(ts) == {t \in TaskNames : ts[t] = "ready"}

\* The Ready tasks no other Ready task has a higher priority than.
HighestReady(ts) ==
    {t \in ReadyTasks(ts) : \A u \in ReadyTasks(ts) : uxPriority(u) <= uxPriority(t)}

\* pvPortMalloc(): the outcomes an allocation can have.  Nothing is freed
\* during boot, so once a request has failed the later ones fail too.
AllocOutcomes == IF heapExhausted THEN {FALSE} ELSE {TRUE, FALSE}

\* What configUSE_MALLOC_FAILED_HOOK can be found to be when an allocation
\* fails: a build-time constant, read here for the first time or as before.
HookSettings == IF useMallocFailedHook = "unread" THEN {"0", "1"} ELSE {useMallocFailedHook}

\* vApplicationMallocFailedHook(): interrupts off, red light on, spin.
vApplicationMallocFailedHook ==
    /\ interruptsEnabled' = FALSE
    /\ led_red' = IF led0_red # "NULL" THEN "lit" ELSE led_red
    /\ pc' = [pc EXCEPT ![0] = "malloc_failed_halt"]

\* vTaskDelayUntil(): whether the caller has to block until xWake.
xShouldDelay(xNow, xPrevious, xWake) ==
    IF xNow < xPrevious
    THEN xWake < xPrevious /\ xWake > xNow
    ELSE xWake < xPrevious \/ xWake > xNow

\* sizeof( unsigned long ) and the queue's item size, sizeof( uint32_t ).
SizeofULong == xlen \div 8

uxItemSize == 4

\* The uxItemSize bytes xQueueSend() copies out of *pvItemToQueue (little endian).
ItemOf(ul) == ul.lo

\* *pvBuffer after xQueueReceive() has copied uxItemSize bytes into it.
CopyItemTo(ul, item) ==
    IF uxItemSize < SizeofULong THEN [ul EXCEPT !.lo = item] ELSE ULong(0, item)

\* The contents of an uninitialised unsigned long on a fresh task stack.
UninitULong ==
    {ULong(hi, lo) : hi \in (IF xlen = 64 THEN StackWords ELSE {0}), lo \in StackWords}

(* ------------------------------------------------------ main, on hart 0 *)

\* write( STDOUT_FILENO, pcMessage, strlen( pcMessage ) );
main_write ==
    /\ pc[0] = "main_write"
    /\ console' = Append(console, pcMessage_main)
    /\ pc' = [pc EXCEPT ![0] = "create_queue"]
    /\ UNCHANGED <<my_lock, _start_other, checkin_count, reg>>
    /\ UNCHANGED <<hwVars, buildVars, injected, kernelVars, taskVars>>

\* main without its test of xQueue: it goes on to create the tasks whatever
\* xQueueCreate() returned.
main_create_queue_unchecked ==
    /\ pc[0] = "create_queue"
    /\ \E ok \in AllocOutcomes :
        IF ok
        THEN /\ xQueue' = "created"
             /\ pc' = [pc EXCEPT ![0] = "create_rx"]
             /\ UNCHANGED <<heapExhausted, useMallocFailedHook, interruptsEnabled, led_red>>
        ELSE /\ heapExhausted' = TRUE
             /\ UNCHANGED xQueue
             /\ useMallocFailedHook' \in HookSettings
             /\ IF useMallocFailedHook' = "1"
                THEN vApplicationMallocFailedHook
                ELSE /\ pc' = [pc EXCEPT ![0] = "create_rx"]
                     /\ UNCHANGED <<interruptsEnabled, led_red>>
    /\ UNCHANGED <<my_lock, _start_other, checkin_count, reg, console>>
    /\ UNCHANGED <<led0_red, led0_green, led_green>>
    /\ UNCHANGED <<items, taskState, pxCurrentTCB, xSchedulerRunning, xTickCount, xTimeToWake>>
    /\ UNCHANGED <<xlen, injected, taskVars>>

\* xQueue = xQueueCreate( mainQUEUE_LENGTH, sizeof( uint32_t ) ); if( xQueue != NULL )
main_create_queue ==
    /\ pc[0] = "create_queue"
    /\ \E ok \in AllocOutcomes :
        IF ok
        THEN /\ xQueue' = "created"
             /\ pc' = [pc EXCEPT ![0] = "create_rx"]
             /\ UNCHANGED <<heapExhausted, useMallocFailedHook, interruptsEnabled, led_red>>
        ELSE /\ heapExhausted' = TRUE
             /\ UNCHANGED xQueue
             /\ useMallocFailedHook' \in HookSettings
             /\ IF useMallocFailedHook' = "1"
                THEN vApplicationMallocFailedHook
                ELSE /\ pc' = [pc EXCEPT ![0] = "main_end"]
                     /\ UNCHANGED <<interruptsEnabled, led_red>>
    /\ UNCHANGED <<my_lock, _start_other, checkin_count, reg, console>>
    /\ UNCHANGED <<led0_red, led0_green, led_green>>
    /\ UNCHANGED <<items, taskState, pxCurrentTCB, xSchedulerRunning, xTickCount, xTimeToWake>>
    /\ UNCHANGED <<xlen, injected, taskVars>>

\* xTaskCreate( prvQueueReceiveTask, "Rx", ..., mainQUEUE_RECEIVE_TASK_PRIORITY, NULL );
main_create_rx ==
    /\ pc[0] = "create_rx"
    /\ \E ok \in AllocOutcomes :
        IF ok
        THEN /\ taskState' = [taskState EXCEPT !["Rx"] = "ready"]
             /\ ulReceivedValue' \in UninitULong
             /\ pc' = [pc EXCEPT ![0] = "create_tx"]
             /\ UNCHANGED <<heapExhausted, useMallocFailedHook, interruptsEnabled, led_red>>
        ELSE /\ heapExhausted' = TRUE
             /\ UNCHANGED <<taskState, ulReceivedValue>>
             /\ useMallocFailedHook' \in HookSettings
             /\ IF useMallocFailedHook' = "1"
                THEN vApplicationMallocFailedHook
                ELSE /\ pc' = [pc EXCEPT ![0] = "create_tx"]
                     /\ UNCHANGED <<interruptsEnabled, led_red>>
    /\ UNCHANGED <<my_lock, _start_other, checkin_count, reg, console>>
    /\ UNCHANGED <<led0_red, led0_green, led_green>>
    /\ UNCHANGED <<xQueue, items, pxCurrentTCB, xSchedulerRunning, xTickCount, xTimeToWake>>
    /\ UNCHANGED <<xlen, injected, txpc, xNextWakeTime, xReturned, rxpc, signals>>

\* xTaskCreate( prvQueueSendTask, "TX", ..., mainQUEUE_SEND_TASK_PRIORITY, NULL );
main_create_tx ==
    /\ pc[0] = "create_tx"
    /\ \E ok \in AllocOutcomes :
        IF ok
        THEN /\ taskState' = [taskState EXCEPT !["TX"] = "ready"]
             /\ pc' = [pc EXCEPT ![0] = "start_scheduler"]
             /\ UNCHANGED <<heapExhausted, useMallocFailedHook, interruptsEnabled, led_red>>
        ELSE /\ heapExhausted' = TRUE
             /\ UNCHANGED taskState
             /\ useMallocFailedHook' \in HookSettings
             /\ IF useMallocFailedHook' = "1"
                THEN vApplicationMallocFailedHook
                ELSE /\ pc' = [pc EXCEPT ![0] = "start_scheduler"]
                     /\ UNCHANGED <<interruptsEnabled, led_red>>
    /\ UNCHANGED <<my_lock, _start_other, checkin_count, reg, console>>
    /\ UNCHANGED <<led0_red, led0_green, led_green>>
    /\ UNCHANGED <<xQueue, items, pxCurrentTCB, xSchedulerRunning, xTickCount, xTimeToWake>>
    /\ UNCHANGED <<xlen, injected, taskVars>>

\* vTaskStartScheduler(): create the idle task and start the highest-priority
\* task with interrupts enabled; if the idle task cannot be created it
\* returns, to main's for( ;; ).
main_start_scheduler ==
    /\ pc[0] = "start_scheduler"
    /\ \E ok \in AllocOutcomes :
        IF ok
        THEN /\ taskState' = [taskState EXCEPT !["IDLE"] = "ready"]
             /\ xSchedulerRunning' = TRUE
             /\ xTickCount' = 0
             /\ pxCurrentTCB' \in HighestReady(taskState')
             /\ interruptsEnabled' = TRUE
             /\ pc' = [pc EXCEPT ![0] = "scheduler"]
             /\ UNCHANGED <<heapExhausted, useMallocFailedHook, led_red>>
        ELSE /\ heapExhausted' = TRUE
             /\ UNCHANGED <<taskState, xSchedulerRunning, xTickCount, pxCurrentTCB>>
             /\ useMallocFailedHook' \in HookSettings
             /\ IF useMallocFailedHook' = "1"
                THEN vApplicationMallocFailedHook
                ELSE /\ pc' = [pc EXCEPT ![0] = "main_end"]
                     /\ UNCHANGED <<interruptsEnabled, led_red>>
    /\ UNCHANGED <<my_lock, _start_other, checkin_count, reg, console>>
    /\ UNCHANGED <<led0_red, led0_green, led_green>>
    /\ UNCHANGED <<xQueue, items, xTimeToWake>>
    /\ UNCHANGED <<xlen, injected, taskVars>>

(* ------------------------------------------ the tick interrupt of hart 0 *)

\* xTaskIncrementTick(): count the tick, wake the delayed producer when its
\* wake time is reached, and run the highest-priority Ready task.
xTaskIncrementTick ==
    /\ xSchedulerRunning
    /\ interruptsEnabled
    /\ xTickCount' = (xTickCount + 1) % TickWrap
    /\ taskState' = IF taskState["TX"] = "delayed" /\ xTimeToWake = xTickCount'
                    THEN [taskState EXCEPT !["TX"] = "ready"]
                    ELSE taskState
    /\ pxCurrentTCB' \in HighestReady(taskState')
    /\ UNCHANGED <<heapExhausted, xQueue, items, xSchedulerRunning, interruptsEnabled, xTimeToWake>>
    /\ UNCHANGED <<bootVars, hwVars, buildVars, injected, taskVars>>

\* The idle task: vApplicationIdleHook() is empty.
prvIdleTask ==
    /\ xSchedulerRunning
    /\ pc[0] = "scheduler"
    /\ pxCurrentTCB = "IDLE"
    /\ UNCHANGED vars

(* ----------------------------------------------------- prvQueueSendTask *)

TxRuns(at) == xSchedulerRunning /\ pc[0] = "scheduler" /\ pxCurrentTCB = "TX" /\ txpc = at

\* xNextWakeTime = xTaskGetTickCount();
prvQueueSendTask_init ==
    /\ TxRuns("init")
    /\ xNextWakeTime' = xTickCount
    /\ txpc' = "led"
    /\ UNCHANGED <<xReturned, rxpc, ulReceivedValue, signals>>
    /\ UNCHANGED <<bootVars, hwVars, buildVars, injected, kernelVars>>

\* if( led0_green != NULL ) metal_led_on( led0_green );
prvQueueSendTask_led ==
    /\ TxRuns("led")
    /\ led_green' = IF led0_green # "NULL" THEN "dark" ELSE led_green
    /\ txpc' = "delay"
    /\ UNCHANGED <<xNextWakeTime, xReturned, rxpc, ulReceivedValue, signals>>
    /\ UNCHANGED <<led0_red, led0_green, led_red>>
    /\ UNCHANGED <<bootVars, buildVars, injected, kernelVars>>

\* The delay taken from now instead of from the last wake time, as
\* vTaskDelay( mainQUEUE_SEND_FREQUENCY_MS ) would.
prvQueueSendTask_delay_from_now ==
    /\ TxRuns("delay")
    /\ LET xWake == (xTickCount + mainQUEUE_SEND_FREQUENCY_MS) % TickWrap
       IN /\ xNextWakeTime' = xWake
          /\ taskState' = [taskState EXCEPT !["TX"] = "delayed"]
          /\ xTimeToWake' = xWake
          /\ pxCurrentTCB' \in HighestReady(taskState')
    /\ txpc' = "send"
    /\ UNCHANGED <<xReturned, rxpc, ulReceivedValue, signals>>
    /\ UNCHANGED <<heapExhausted, xQueue, items, xSchedulerRunning, interruptsEnabled, xTickCount>>
    /\ UNCHANGED <<bootVars, hwVars, buildVars, injected>>

\* vTaskDelayUntil( &xNextWakeTime, mainQUEUE_SEND_FREQUENCY_MS );
prvQueueSendTask_delay ==
    /\ TxRuns("delay")
    /\ LET xWake == (xNextWakeTime + mainQUEUE_SEND_FREQUENCY_MS) % TickWrap
       IN /\ xNextWakeTime' = xWake
          /\ IF xShouldDelay(xTickCount, xNextWakeTime, xWake)
             THEN /\ taskState' = [taskState EXCEPT !["TX"] = "delayed"]
                  /\ xTimeToWake' = xWake
                  /\ pxCurrentTCB' \in HighestReady(taskState')
             ELSE UNCHANGED <<taskState, xTimeToWake, pxCurrentTCB>>
    /\ txpc' = "send"
    /\ UNCHANGED <<xReturned, rxpc, ulReceivedValue, signals>>
    /\ UNCHANGED <<heapExhausted, xQueue, items, xSchedulerRunning, interruptsEnabled, xTickCount>>
    /\ UNCHANGED <<bootVars, hwVars, buildVars, injected>>

\* xQueueSend( xQueue, &ulValueToSend, 0U ): with room in the queue the item
\* is copied in; a consumer blocked on the queue is made Ready, and when its
\* priority is higher the call yields to it before it returns, so that
\* xReturned is not yet assigned while the consumer runs.  Without a yield,
\* and with a full queue, the call returns and xReturned is assigned.
prvQueueSendTask_send ==
    /\ TxRuns("send")
    /\ IF Len(items) < mainQUEUE_LENGTH
       THEN /\ items' = Append(items, ItemOf(ulValueToSend))
            /\ signals' = <<>>
            /\ IF taskState["Rx"] = "blockedRecv"
               THEN /\ taskState' = [taskState EXCEPT !["Rx"] = "ready"]
                    /\ IF uxPriority("Rx") > uxPriority("TX")
                       THEN /\ pxCurrentTCB' = "Rx"
                            /\ txpc' = "send_yielded"
                            /\ UNCHANGED xReturned
                       ELSE /\ xReturned' = "pdPASS"
                            /\ txpc' = "assert"
                            /\ UNCHANGED pxCurrentTCB
               ELSE /\ xReturned' = "pdPASS"
                    /\ txpc' = "assert"
                    /\ UNCHANGED <<taskState, pxCurrentTCB>>
       ELSE /\ xReturned' = "errQUEUE_FULL"
            /\ txpc' = "assert"
            /\ UNCHANGED <<items, signals, taskState, pxCurrentTCB>>
    /\ UNCHANGED <<xNextWakeTime, rxpc, ulReceivedValue>>
    /\ UNCHANGED <<heapExhausted, xQueue, xSchedulerRunning, interruptsEnabled, xTickCount, xTimeToWake>>
    /\ UNCHANGED <<bootVars, hwVars, buildVars, injected>>

\* xReturned = xQueueSend( ... ): the producer runs again after the yield,
\* the call returns pdPASS and xReturned is assigned.
prvQueueSendTask_send_return ==
    /\ TxRuns("send_yielded")
    /\ xReturned' = "pdPASS"
    /\ txpc' = "assert"
    /\ UNCHANGED <<xNextWakeTime, rxpc, ulReceivedValue, signals>>
    /\ UNCHANGED <<bootVars, hwVars, buildVars, injected, kernelVars>>

\* vAssertCalled(): interrupts off, red light on, spin for ever.
vAssertCalled ==
    /\ interruptsEnabled' = FALSE
    /\ led_red' = IF led0_red # "NULL" THEN "lit" ELSE led_red
    /\ txpc' = "assert_halt"

\* configASSERT( xReturned == pdPASS ); and back to the top of the loop.
prvQueueSendTask_assert ==
    /\ TxRuns("assert")
    /\ IF xReturned = "pdPASS"
       THEN /\ txpc' = "led"
            /\ UNCHANGED <<interruptsEnabled, led_red>>
       ELSE vAssertCalled
    /\ UNCHANGED <<xNextWakeTime, xReturned, rxpc, ulReceivedValue, signals>>
    /\ UNCHANGED <<led0_red, led0_green, led_green>>
    /\ UNCHANGED <<heapExhausted, xQueue, items, taskState, pxCurrentTCB,
                   xSchedulerRunning, xTickCount, xTimeToWake>>
    /\ UNCHANGED <<bootVars, buildVars, injected>>

(* -------------------------------------------------- prvQueueReceiveTask *)

RxRuns(at) == xSchedulerRunning /\ pc[0] = "scheduler" /\ pxCurrentTCB = "Rx" /\ rxpc = at

\* The receive with a block time of 0: with no item in the queue it returns
\* at once and the caller goes on to its comparison.
prvQueueReceiveTask_receive_no_wait ==
    /\ RxRuns("receive")
    /\ IF Len(items) > 0
       THEN /\ ulReceivedValue' = CopyItemTo(ulReceivedValue, Head(items))
            /\ items' = Tail(items)
       ELSE UNCHANGED <<ulReceivedValue, items>>
    /\ rxpc' = "compare"
    /\ UNCHANGED <<taskState, pxCurrentTCB>>
    /\ UNCHANGED <<txpc, xNextWakeTime, xReturned, signals>>
    /\ UNCHANGED <<heapExhausted, xQueue, xSchedulerRunning, interruptsEnabled, xTickCount, xTimeToWake>>
    /\ UNCHANGED <<bootVars, hwVars, buildVars, injected>>

\* xQueueReceive( xQueue, &ulReceivedValue, portMAX_DELAY ); with an item in
\* the queue it copies the item out and returns, with none it blocks the
\* caller, which tries again when a send has made it Ready.
prvQueueReceiveTask_receive ==
    /\ RxRuns("receive")
    /\ IF Len(items) > 0
       THEN /\ ulReceivedValue' = CopyItemTo(ulReceivedValue, Head(items))
            /\ items' = Tail(items)
            /\ rxpc' = "compare"
            /\ UNCHANGED <<taskState, pxCurrentTCB>>
       ELSE /\ taskState' = [taskState EXCEPT !["Rx"] = "blockedRecv"]
            /\ pxCurrentTCB' \in HighestReady(taskState')
            /\ UNCHANGED <<ulReceivedValue, items, rxpc>>
    /\ UNCHANGED <<txpc, xNextWakeTime, xReturned, signals>>
    /\ UNCHANGED <<heapExhausted, xQueue, xSchedulerRunning, interruptsEnabled, xTickCount, xTimeToWake>>
    /\ UNCHANGED <<bootVars, hwVars, buildVars, injected>>

\* if( ulReceivedValue == ulExpectedValue ) { write Blink; ulReceivedValue = 0U;
\* green led } else { write the failure message }
prvQueueReceiveTask_compare ==
    /\ RxRuns("compare")
    /\ IF ulReceivedValue = ulExpectedValue
       THEN /\ signals' = Append(signals, pcPassMessage)
            /\ ulReceivedValue' = ULong(0, 0)
            /\ led_green' = IF led0_green # "NULL" THEN "lit" ELSE led_green
       ELSE /\ signals' = Append(signals, pcFailMessage_rx)
            /\ UNCHANGED <<ulReceivedValue, led_green>>
    /\ rxpc' = "receive"
    /\ UNCHANGED <<txpc, xNextWakeTime, xReturned>>
    /\ UNCHANGED <<led0_red, led0_green, led_red>>
    /\ UNCHANGED <<bootVars, buildVars, injected, kernelVars>>

(* ------------------------------------------------------ stack overflow *)

\* The producer has executed an xQueueSend().
SendHappened == txpc \in {"send_yielded", "assert", "assert_halt"} \/ xReturned # "unset"

\* vApplicationStackOverflowHook( pxTask, pcTaskName ), called by the kernel
\* when it finds the stack of the Running task overflowed: interrupts off,
\* the message and the task's name written, red light on, spin for ever.
vApplicationStackOverflowHook ==
    /\ xSchedulerRunning
    /\ pc[0] = "scheduler"
    /\ interruptsEnabled
    /\ interruptsEnabled' = FALSE
    /\ IF SendHappened
       THEN /\ signals' = signals \o <<pcErrorMsg_overflow, pxCurrentTCB>>
            /\ UNCHANGED console
       ELSE /\ console' = console \o <<pcErrorMsg_overflow, pxCurrentTCB>>
            /\ UNCHANGED signals
    /\ led_red' = IF led0_red # "NULL" THEN "lit" ELSE led_red
    /\ pc' = [pc EXCEPT ![0] = "stack_overflow_halt"]
    /\ UNCHANGED <<my_lock, _start_other, checkin_count, reg>>
    /\ UNCHANGED <<led0_red, led0_green, led_green>>
    /\ UNCHANGED <<heapExhausted, xQueue, items, taskState, pxCurrentTCB,
                   xSchedulerRunning, xTickCount, xTimeToWake>>
    /\ UNCHANGED <<txpc, xNextWakeTime, xReturned, rxpc, ulReceivedValue>>
    /\ UNCHANGED <<buildVars, injected>>

(* ------------------------------------------- a value put in from outside *)

\* A word that is not the sentinel.
WrongWord == 7

\* A wrong value is put into the queue once, from an interrupt, while the
\* queue has room: a consumer blocked on the queue is made Ready, and the
\* interrupt returns to the highest-priority Ready task.
InjectWrongValue ==
    /\ xSchedulerRunning
    /\ interruptsEnabled
    /\ ~ injected
    /\ Len(items) < mainQUEUE_LENGTH
    /\ injected' = TRUE
    /\ items' = Append(items, WrongWord)
    /\ taskState' = IF taskState["Rx"] = "blockedRecv"
                    THEN [taskState EXCEPT !["Rx"] = "ready"]
                    ELSE taskState
    /\ pxCurrentTCB' \in HighestReady(taskState')
    /\ UNCHANGED <<heapExhausted, xQueue, xSchedulerRunning, interruptsEnabled, xTickCount, xTimeToWake>>
    /\ UNCHANGED <<bootVars, hwVars, buildVars, taskVars>>

(* -------------------------------------------------------- specifications *)

\* What hart 0 does from reset until the scheduler takes over.
PrimaryBoot ==
    \/ secondary_main_lock_init_failed
    \/ secondary_main_lock_init_ok
    \/ secondary_main_start_other
    \/ prvSetupHardware_take
    \/ prvSetupHardware_inc_load
    \/ prvSetupHardware_inc_store
    \/ prvSetupHardware_give
    \/ prvSetupHardware_wait
    \/ prvSetupHardware_early_return
    \/ prvSetupHardware_no_controller
    \/ prvSetupHardware_leds
    \/ main_write
    \/ main_create_queue
    \/ main_create_rx
    \/ main_create_tx
    \/ main_start_scheduler

\* What secondary hart h does until it parks.
OtherBoot(h) ==
    \/ other_main_poll(h)
    \/ other_main_take(h)
    \/ other_main_write_begin(h)
    \/ other_main_write(h)
    \/ other_main_inc_load(h)
    \/ other_main_inc_store(h)
    \/ other_main_give(h)

\* The tasks and the tick interrupt of hart 0 once the scheduler runs.
Runtime ==
    \/ xTaskIncrementTick
    \/ prvIdleTask
    \/ prvQueueSendTask_init
    \/ prvQueueSendTask_led
    \/ prvQueueSendTask_delay
    \/ prvQueueSendTask_send
    \/ prvQueueSendTask_send_return
    \/ prvQueueSendTask_assert
    \/ prvQueueReceiveTask_receive
    \/ prvQueueReceiveTask_compare
    \/ vApplicationStackOverflowHook

BootNext ==
    \/ PrimaryBoot
    \/ \E h \in Secondaries : OtherBoot(h) \/ other_main_wfi(h)

Next ==
    \/ BootNext
    \/ Runtime

Spec == Init /\ [][Next]_vars

\* The program with one wrong value put into the queue at any moment.
InjectSpec == Init /\ [][Next \/ InjectWrongValue]_vars

\* The boot alone, every hart executing its instructions: a hart that can
\* take a step eventually takes one.
BootFairSpec ==
    /\ Init
    /\ [][BootNext]_vars
    /\ WF_vars(PrimaryBoot)
    /\ \A h \in Secondaries : WF_vars(OtherBoot(h))

(* ------------------------------------------------------------ properties *)

\* Where hart 0 is before it has left prvSetupHardware's busy-wait.
BeforeBarrier ==
    {"lock_init", "lock_init_halt", "start_other",
     "hw_take", "hw_inc_load", "hw_inc_store", "hw_give", "hw_wait"}

PastBarrier == pc[0] \notin BeforeBarrier

\* Hart h has executed the store of its checkin_count += 1.
Incremented(h) ==
    IF h = 0
    THEN pc[0] \in {"hw_give", "hw_wait"} \/ PastBarrier
    ELSE pc[h] \in {"give", "wfi"}

\* Hart h is between its metal_lock_take() and its metal_lock_give().
InCheckin(h) ==
    IF h = 0
    THEN pc[0] \in {"hw_inc_load", "hw_inc_store", "hw_give"}
    ELSE pc[h] \in {"write", "writing", "inc_load", "inc_store", "give"}

\* metal_lock_init() has returned an error.
LockInitFailed == pc[0] # "lock_init" /\ ~ my_lock.init

\* C1: a secondary hart gets past its poll of _start_other, and so takes or
\* holds my_lock, only once metal_lock_init() has succeeded on hart 0; the
\* flag is set only after the initialisation; and when the initialisation
\* fails the flag stays 0 and every secondary stays in its poll loop.
C1_NoLockUseBeforeInit ==
    /\ \A h \in Secondaries : pc[h] # "poll" => my_lock.init
    /\ my_lock.owner \in Secondaries => my_lock.init
    /\ _start_other # 0 => my_lock.init
    /\ LockInitFailed => _start_other = 0 /\ \A h \in Secondaries : pc[h] = "poll"

\* A secondary hart holds the initialised lock.
C1_Witness ==
    \E h \in Secondaries : my_lock.owner = h /\ pc[h] = "write" /\ my_lock.init

\* C2: whenever hart 0 is past the busy-wait of prvSetupHardware (hardware
\* setup, queue and task creation, scheduler start and everything after),
\* checkin_count equals the number of harts and every hart has incremented it.
C2_PrimaryPastBarrierAllCheckedIn ==
    (PastBarrier \/ xQueue # "NULL" \/ xSchedulerRunning
        \/ \E t \in TaskNames : taskState[t] # "absent")
    => /\ checkin_count = NumHarts
       /\ \A h \in Harts : Incremented(h)

\* Hart 0 is about to create the queue.
C2_Witness == pc[0] = "create_queue" /\ checkin_count = NumHarts

\* C3 as stated: no hart, secondary harts included, is past its check-in step
\* while checkin_count is below the number of harts.
C3_EveryHartWaitsForAll ==
    /\ PastBarrier => checkin_count = NumHarts
    /\ \A h \in Secondaries : pc[h] = "wfi" => checkin_count = NumHarts

\* C3 as amended: only hart 0 busy-waits on the counter.  It leaves the
\* busy-wait exactly when checkin_count equals the number of harts (the step
\* that leaves is taken with the counter at NumHarts, and is possible as soon
\* as the counter is NumHarts); a secondary hart goes from its
\* metal_lock_give() straight to its wfi loop, whatever the counter holds.
C3_OnlyPrimaryWaits ==
    /\ [][ /\ (pc[0] = "hw_wait" /\ pc'[0] # "hw_wait")
                => (checkin_count = NumHarts /\ pc'[0] = "hw_setup")
           /\ \A h \in Secondaries :
                (pc[h] = "give" /\ pc'[h] # "give") => pc'[h] = "wfi" ]_vars
    /\ [](pc[0] = "hw_wait" => (checkin_count = NumHarts <=> ENABLED prvSetupHardware_wait))

\* Hart 0 has just left the busy-wait and every secondary hart is parked.
C3_Witness ==
    /\ pc[0] = "hw_setup"
    /\ checkin_count = NumHarts
    /\ \A h \in Secondaries : pc[h] = "wfi"

\* C4: every step leaves checkin_count alone or adds one to it, and adds one
\* only as the store of the hart that holds my_lock; after every step the
\* counter is the number of harts that have done their increment (none is
\* lost), which is at most the number of harts; a hart between take and give
\* is the lock's owner; and a counter that has reached the number of harts
\* keeps that value.
C4_CheckinCountExact ==
    [][ /\ checkin_count' \in {checkin_count, checkin_count + 1}
        /\ checkin_count' # checkin_count
            => /\ my_lock.owner \in Harts
               /\ InCheckin(my_lock.owner)
               /\ ~ Incremented(my_lock.owner)
               /\ Incremented(my_lock.owner)'
        /\ checkin_count' = Cardinality({h \in Harts : Incremented(h)'})
        /\ checkin_count' <= NumHarts
        /\ \A h \in Harts : InCheckin(h)' => my_lock'.owner = h
        /\ checkin_count = NumHarts => checkin_count' = NumHarts ]_vars

\* Every hart has checked in and hart 0 still polls the counter.
C4_Witness ==
    /\ checkin_count = NumHarts
    /\ pc[0] = "hw_wait"
    /\ my_lock.owner = NoOwner

\* Hart 0 has stopped during boot on one of the failure paths that follow a
\* successful metal_lock_init(): no external interrupt controller, a failed
\* allocation caught by vApplicationMallocFailedHook(), or main's for( ;; )
\* after a failed xQueueCreate() or vTaskStartScheduler().
BootAbandoned == pc[0] \in {"no_controller_halt", "malloc_failed_halt", "main_end"}

\* The queue and both tasks exist and the scheduler runs.
BootCompleted ==
    /\ xSchedulerRunning
    /\ xQueue = "created"
    /\ taskState["Rx"] # "absent"
    /\ taskState["TX"] # "absent"

\* C5 as stated: once metal_lock_init() has succeeded, fair scheduling of the
\* harts always leads to the queue and both tasks created and the scheduler
\* started.
C5_BootAlwaysCompletes == my_lock.init ~> BootCompleted

\* C5 as amended: once metal_lock_init() has succeeded, fair scheduling of
\* the harts always leads to every hart having checked in and to hart 0
\* leaving the busy-wait (the barrier neither deadlocks nor livelocks); from
\* there hart 0 creates the queue and both tasks and starts the scheduler,
\* unless it stops on a missing external interrupt controller or on a failed
\* allocation.
C5_BarrierAlwaysPassed ==
    /\ my_lock.init ~> (checkin_count = NumHarts /\ \A h \in Harts : Incremented(h))
    /\ my_lock.init ~> PastBarrier
    /\ my_lock.init ~> (BootCompleted \/ BootAbandoned)

\* The boot has completed: queue, both tasks, scheduler running.
C5_Witness == BootCompleted /\ pc[0] = "scheduler" /\ my_lock.init

\* C6: when metal_lock_init() fails, "Failed to initialize my_lock" is the
\* one line written, hart 0 spins in secondary_main, no queue and no task
\* exists, the scheduler does not run, no task has executed anything, and no
\* hart can take any further step.
C6_LockInitFailureHalts ==
    LockInitFailed =>
        /\ console = <<pcFailMessage_lock>>
        /\ pc[0] = "lock_init_halt"
        /\ xQueue = "NULL"
        /\ \A t \in TaskNames : taskState[t] = "absent"
        /\ ~ xSchedulerRunning
        /\ pxCurrentTCB = "NULL"
        /\ txpc = "init" /\ rxpc = "receive" /\ signals = <<>>
        /\ ~ ENABLED Next

\* The initialisation has failed and hart 0 spins.
C6_Witness == pc[0] = "lock_init_halt" /\ console = <<pcFailMessage_lock>>

\* C7: whenever the producer is about to execute its xQueueSend() the queue
\* is empty, the send returns pdPASS, and vAssertCalled() is never entered.
C7_SendNeverFails ==
    /\ TxRuns("send") => Len(items) = 0
    /\ txpc = "assert" => xReturned = "pdPASS"
    /\ txpc # "assert_halt"
    /\ xReturned # "errQUEUE_FULL"

\* The producer has sent and is at its configASSERT.
C7_Witness == TxRuns("assert") /\ xReturned = "pdPASS" /\ Len(items) = 0

\* C8: the send that finds the consumer blocked on the queue makes it Ready
\* and Running in the same step, and whenever the producer is Running again
\* after a send the consumer has taken the item (the queue is empty) and is
\* blocked on the queue again.
C8_SendPreemptsProducer ==
    [][ /\ (TxRuns("send") /\ taskState["Rx"] = "blockedRecv" /\ txpc' # "send")
            => /\ taskState'["Rx"] = "ready"
               /\ pxCurrentTCB' = "Rx"
               /\ Len(items') = 1
        /\ (pc'[0] = "scheduler" /\ pxCurrentTCB' = "TX" /\ txpc' \in {"send_yielded", "assert"})
            => /\ items' = <<>>
               /\ taskState'["Rx"] = "blockedRecv"
               /\ Len(signals') = 1 ]_vars

\* The send has just preempted the producer: the consumer runs, the item is
\* still in the queue and the producer has not moved past its send.
C8_Witness ==
    /\ xSchedulerRunning
    /\ pxCurrentTCB = "Rx"
    /\ rxpc = "receive"
    /\ Len(items) = 1
    /\ txpc = "send_yielded"

\* C9 as stated: the value the consumer compares after a receive is the
\* sentinel 100, whatever ulReceivedValue held before, and the consumer never
\* writes "Unexpected value received".
C9_ReceivedIsSentinel ==
    /\ rxpc = "compare" => ulReceivedValue = ulExpectedValue
    /\ \A i \in 1 .. Len(signals) : signals[i] # pcFailMessage_rx

\* C10 as stated: when the producer runs again after a send, the consumer
\* has done exactly one receive since that send and has written exactly one
\* "Blink".
C10_EverySendBlinksOnce ==
    (TxRuns("assert") /\ xReturned = "pdPASS") => signals = <<pcPassMessage>>

\* C11: xNextWakeTime is set once, from the tick count, by the producer's
\* first step; after that only vTaskDelayUntil() changes it, and always to
\* the previous target plus the period (modulo the tick counter's range),
\* whatever the tick count is by then; and the delayed producer is made
\* Ready by the tick that brings the tick count to that target.
C11_DriftFreePeriod ==
    [][ /\ (txpc = "init" /\ txpc' # "init") => xNextWakeTime' = xTickCount
        /\ txpc' = "init" => txpc = "init"
        /\ (txpc = "delay" /\ txpc' # "delay")
            => xNextWakeTime' = (xNextWakeTime + PeriodTicks) % TickWrap
        /\ (txpc' = txpc \/ txpc \notin {"init", "delay"})
            => xNextWakeTime' = xNextWakeTime
        /\ (taskState["TX"] = "delayed" /\ taskState'["TX"] # "delayed")
            => xTickCount' = xNextWakeTime ]_vars

\* The producer is back at its vTaskDelayUntil() after a send, and ticks
\* have been counted since the target it was last woken at.
C11_Witness ==
    /\ TxRuns("delay")
    /\ xReturned = "pdPASS"
    /\ xTickCount # xNextWakeTime

\* C12 as stated: a comparison of a received word that is not the sentinel
\* writes one "Unexpected value received", which happens only for the value
\* put in from outside; a comparison of a received sentinel 100, before or
\* after that, writes one "Blink"; either way the consumer goes back to its
\* receive, no task changes state, and the producer does not halt.
C12_MismatchRecoverable ==
    [][ (RxRuns("compare") /\ rxpc' # "compare")
            => /\ rxpc' = "receive"
               /\ ulReceivedValue.lo = SentinelWord
                    => signals' = Append(signals, pcPassMessage)
               /\ ulReceivedValue.lo # SentinelWord
                    => /\ signals' = Append(signals, pcFailMessage_rx)
                       /\ injected
               /\ UNCHANGED <<taskState, pxCurrentTCB, txpc, items>>
               /\ txpc # "assert_halt" ]_vars

\* C13: once the scheduler has started, the Running task is Ready and no
\* Ready task has a higher priority; whenever the consumer is Ready it is the
\* Running task, so the producer never runs while the consumer is Ready.
C13_HighestPriorityRuns ==
    xSchedulerRunning =>
        /\ pxCurrentTCB \in TaskNames
        /\ taskState[pxCurrentTCB] = "ready"
        /\ \A t \in TaskNames :
            taskState[t] = "ready" => uxPriority(t) <= uxPriority(pxCurrentTCB)
        /\ taskState["Rx"] = "ready" => pxCurrentTCB = "Rx"
        /\ pxCurrentTCB = "TX" => taskState["Rx"] = "blockedRecv"

\* The producer became Ready first (woken by the tick while the consumer was
\* blocked) and has sent; both tasks are Ready and the consumer, holding the
\* value it received, is the one that runs.
C13_Witness ==
    /\ xSchedulerRunning
    /\ taskState["Rx"] = "ready"
    /\ taskState["TX"] = "ready"
    /\ pxCurrentTCB = "Rx"
    /\ rxpc = "compare"
    /\ txpc = "send_yielded"

\* C14: the consumer stops being blocked on the queue only in the step in
\* which the producer's xQueueSend() puts an item in, never in a tick; and it
\* reaches its comparison only from a receive that found an item in the
\* queue, took it out and copied it into ulReceivedValue.
C14_ReceiveReturnsOnlyWithItem ==
    [][ /\ (taskState["Rx"] = "blockedRecv" /\ taskState'["Rx"] # "blockedRecv")
            => /\ TxRuns("send")
               /\ txpc' = "send_yielded"
               /\ items' = Append(items, SentinelWord)
               /\ xTickCount' = xTickCount
               /\ taskState'["Rx"] = "ready"
        /\ (rxpc # "compare" /\ rxpc' = "compare")
            => /\ RxRuns("receive")
               /\ Len(items) > 0
               /\ items' = Tail(items)
               /\ ulReceivedValue'.lo = Head(items) ]_vars

\* The consumer, unblocked by the producer's send, has taken the item out
\* and is at its comparison.
C14_Witness ==
    /\ RxRuns("compare")
    /\ txpc = "send_yielded"
    /\ items = <<>>
    /\ ulReceivedValue.lo = SentinelWord

\* Hart 0 has stopped on one of the fatal conditions: metal_lock_init()
\* failed, the producer's configASSERT failed, an allocation failed, or a
\* stack overflowed.
FatalHalt ==
    \/ pc[0] = "lock_init_halt"
    \/ pc[0] = "malloc_failed_halt"
    \/ pc[0] = "main_end"
    \/ pc[0] = "stack_overflow_halt"
    \/ txpc = "assert_halt"

\* A diagnostic of a fatal condition has been emitted: the lock message or
\* the stack overflow message on STDOUT, or the red light.
DiagnosticEmitted ==
    \/ \E i \in 1 .. Len(console) : console[i] \in {pcFailMessage_lock, pcErrorMsg_overflow}
    \/ \E i \in 1 .. Len(signals) : signals[i] = pcErrorMsg_overflow
    \/ led_red = "lit"

\* C15 as stated: wherever hart 0 has stopped on a fatal condition,
\* interrupts are disabled, a diagnostic (a console message or the red
\* light) has been emitted, and no task or tick handler can take a step.
C15_FatalConditionsHalt ==
    FatalHalt =>
        /\ ~ interruptsEnabled
        /\ DiagnosticEmitted
        /\ ~ ENABLED Runtime

\* C16: the queue never holds more than one item, and none before it is
\* created; while it holds one, the consumer is the Running task, at its
\* receive, and the producer is still inside the xQueueSend() that put the
\* item in: the item is taken out before the producer runs again.
C16_QueueOccupancy ==
    /\ Len(items) \in {0, 1}
    /\ Len(items) <= mainQUEUE_LENGTH
    /\ xQueue = "NULL" => items = <<>>
    /\ Len(items) = 1
        => /\ xSchedulerRunning
           /\ pxCurrentTCB = "Rx"
           /\ rxpc = "receive"
           /\ txpc = "send_yielded"

\* The created queue holds the one item the producer has sent.
C16_Witness == xQueue = "created" /\ items = <<SentinelWord>>

\* C17: the queue is created, each task is created and the scheduler is
\* started only by a step of hart 0 at the matching statement of main, and
\* none of them twice (hart 0 never comes back to a statement of main it has
\* left); a step of a secondary hart changes nothing of the queue, the tasks
\* or the kernel; a secondary starts its check-in only from its poll loop,
\* and once in the wfi loop it stays there, does not own my_lock, and no
\* longer changes my_lock or checkin_count.
C17_OnlyPrimaryCreates ==
    [][ /\ xQueue' # xQueue
            => /\ pc[0] = "create_queue" /\ pc'[0] # "create_queue"
               /\ xQueue = "NULL" /\ xQueue' = "created"
        /\ \A t \in {"Rx", "TX"} :
            taskState'[t] # taskState[t] /\ "absent" \in {taskState[t], taskState'[t]}
                => /\ pc[0] = (IF t = "Rx" THEN "create_rx" ELSE "create_tx")
                   /\ pc'[0] = (IF t = "Rx" THEN "create_tx" ELSE "start_scheduler")
                   /\ taskState[t] = "absent"
        /\ xSchedulerRunning' # xSchedulerRunning
            => /\ pc[0] = "start_scheduler" /\ pc'[0] = "scheduler"
               /\ xSchedulerRunning'
        /\ pc'[0] # pc[0]
            => /\ pc'[0] = "create_queue" => pc[0] = "main_write"
               /\ pc'[0] = "create_rx" => pc[0] = "create_queue"
               /\ pc'[0] = "create_tx" => pc[0] = "create_rx"
               /\ pc'[0] = "start_scheduler" => pc[0] = "create_tx"
               /\ pc[0] = "scheduler" => pc'[0] = "stack_overflow_halt"
        /\ \A h \in Secondaries :
            /\ pc'[h] # pc[h]
                => /\ UNCHANGED <<kernelVars, taskVars, hwVars>>
                   /\ pc'[h] = "take" => pc[h] = "poll"
            /\ pc[h] = "wfi"
                => /\ pc'[h] = "wfi"
                   /\ my_lock.owner # h /\ my_lock'.owner # h
                   /\ (my_lock' # my_lock \/ checkin_count' # checkin_count)
                        => \E g \in Harts \ {h} : pc'[g] # pc[g] ]_vars

\* Every secondary is parked in its wfi loop while, on hart 0, the scheduler
\* runs and the producer has reached its send.
C17_Witness ==
    /\ \A h \in Secondaries : pc[h] = "wfi"
    /\ pc[0] = "scheduler"
    /\ xQueue = "created"
    /\ txpc = "send"

\* C18: once an allocation has failed the scheduler is not running and never
\* starts, no task is Running and neither task has executed a statement, and
\* hart 0 is in the malloc-failed hook, in main's final for( ;; ), or on its
\* way there through the calls whose results main does not check; when it is
\* the queue's allocation that failed, no task exists and hart 0 is already
\* in the hook or in the final loop; and the scheduler runs only with the
\* queue and both tasks created.
C18_AllocationFailureIsFatal ==
    /\ heapExhausted
        => /\ ~ xSchedulerRunning
           /\ pxCurrentTCB = "NULL"
           /\ txpc = "init" /\ rxpc = "receive" /\ signals = <<>>
           /\ pc[0] \in {"malloc_failed_halt", "main_end", "create_tx", "start_scheduler"}
           /\ pc[0] \in {"create_tx", "start_scheduler"} => useMallocFailedHook = "0"
           /\ ~ ENABLED Runtime
    /\ (heapExhausted /\ xQueue = "NULL")
        => /\ \A t \in TaskNames : taskState[t] = "absent"
           /\ pc[0] \in {"malloc_failed_halt", "main_end"}
    /\ xSchedulerRunning
        => /\ xQueue = "created"
           /\ \A t \in TaskNames : taskState[t] # "absent"

\* The consumer was created, the producer's allocation failed, and hart 0
\* has ended in main's final loop without the scheduler.
C18_Witness ==
    /\ heapExhausted
    /\ taskState["Rx"] = "ready"
    /\ taskState["TX"] = "absent"
    /\ pc[0] = "main_end"

\* The number of complete "Other Hart Init" lines among the first n lines of
\* the console.
OtherLines(n) == Cardinality({i \in 1 .. n : console[i] = pcMessage_other})

\* C19: a secondary that is about to write or is writing its "Other Hart
\* Init" holds my_lock and has not yet incremented checkin_count; no two
\* secondaries are inside write() at the same time; the console holds one
\* complete "Other Hart Init" for each secondary that has returned from its
\* write(); and when hart 0 is about to write, or has written, its "FreeRTOS
\* Demo ..." message, every secondary's message is complete in the console,
\* ahead of it, and no secondary is writing.
C19_BootOutputOrdered ==
    /\ \A h \in Secondaries :
        pc[h] \in {"write", "writing"}
            => /\ my_lock.owner = h
               /\ ~ Incremented(h)
               /\ checkin_count < NumHarts
    /\ Cardinality({h \in Secondaries : pc[h] = "writing"}) <= 1
    /\ OtherLines(Len(console))
        = Cardinality({h \in Secondaries : pc[h] \in {"inc_load", "inc_store", "give", "wfi"}})
    /\ pc[0] = "main_write"
        => /\ OtherLines(Len(console)) = NumHarts - 1
           /\ \A h \in Secondaries : pc[h] \in {"give", "wfi"}
    /\ \A i \in 1 .. Len(console) :
        console[i] = pcMessage_main
            => /\ OtherLines(i) = NumHarts - 1
               /\ \A h \in Secondaries : pc[h] \in {"give", "wfi"}

\* One secondary's message is complete in the console and the other
\* secondary, holding my_lock, is inside its write().
C19_Witness ==
    /\ console = <<pcMessage_other>>
    /\ \E h \in Secondaries : pc[h] = "writing" /\ my_lock.owner = h

====
